---- MODULE Spec2Model ----
(***************************************************************************)
(* Model of the decision engine of the Mechanical Options Trade            *)
(* Recommender: the validator (src/src/utils/validation.py), the helpers   *)
(* traffic and final_decision (src/src/utils/helpers.py) and the           *)
(* OptionsModel object (src/src/models/options_model.py), and of the       *)
(* market-data provider IBKRClient (src/src/utils/ibkr_client.py).         *)
(*                                                                         *)
(* Numbers.  The program computes with Python numbers.  The model takes    *)
(* its inputs from small sets of integers and computes every derived       *)
(* quantity as an exact fraction [n |-> numerator, d |-> denominator] with *)
(* d > 0, so a threshold such as 0.01 is the fraction 1/100.               *)
(*                                                                         *)
(* Dictionaries.  A Python dict is a sequence of <<key, value>> pairs in   *)
(* insertion order; the empty dict {} is the empty sequence.               *)
(*                                                                         *)
(* Exceptions.  A function that may raise returns a record                 *)
(* [raised, msg, value]: raised = TRUE carries the ValidationError message *)
(* (a sequence of the pieces of the f-string), raised = FALSE carries the  *)
(* returned value wrapped in a one-element sequence.                       *)
(***************************************************************************)
EXTENDS Integers, Sequences, FiniteSets, TLC

VARIABLES
    inputs,          \* the input record handed to OptionsModel(...)
    phase,           \* "new": not constructed; "ready": constructed; "failed": __init__ raised
    error,           \* message of the ValidationError raised by __init__, <<>> if none
    metrics,         \* self.metrics
    statuses,        \* self.statuses
    called,          \* the public methods of the model that have returned so far
    ret_metrics,     \* last value returned by compute_metrics
    ret_statuses,    \* last value returned by evaluate_status_lights
    ret_decision,    \* last value returned by get_final_decision
    ret_suggestions, \* last value returned by get_strategy_suggestions
    v_call,          \* the validation function last called directly ("none" at first)
    v_result,        \* its outcome, a [raised, msg, value] record
    ibkr,            \* the brokerage side: "no_ib_insync", "unreachable" or "reachable"
    yf_installed,    \* whether the module-level import of yfinance succeeded (yf is not None)
    connected,       \* self.ib is set and self.ib.isConnected()
    lk_call,         \* the provider lookup last called ("none" at first)
    lk_env,          \* what the upstream sources answer during that call
    lk_trace,        \* the market-data requests that call made, in order
    lk_out,          \* its outcome: [raised, value], raised = TRUE when an exception escaped
    today,           \* dt.date.today(), a proleptic Gregorian ordinal
    from_date,       \* the argument of nearest_two_fridays: <<>> for None, <<d>> for the date d
    fridays,         \* what nearest_two_fridays returned: <<first, second>>, <<>> before the call
    mode,            \* the input mode of the last render ("none" before the first)
    auto_data,       \* st.session_state.auto_data, the provider cache
    ibkr_last_updated, \* st.session_state.ibkr_last_updated: <<>> for None, <<t>> for the time t
    renders,         \* the renders so far, which is also the clock of the session
    ui_refresh,      \* whether the refresh button was pressed in the last render
    selected,        \* the symbol selected in the last render
    ui_lookups,      \* the provider lookups the last render made, in order
    ui_env,          \* what the upstream sources answered during the last acquisition cycle
    ui_connected,    \* whether the client of the last acquisition cycle ended connected
    fetched_for      \* the symbol the last acquisition cycle asked the provider about

provider_vars == <<ibkr, yf_installed, connected, lk_call, lk_env, lk_trace, lk_out>>

calendar_vars == <<today, from_date, fridays>>

ui_vars == <<mode, auto_data, ibkr_last_updated, renders, ui_refresh, selected,
             ui_lookups, ui_env, ui_connected, fetched_for>>

vars == <<inputs, phase, error, metrics, statuses, called, ret_metrics,
          ret_statuses, ret_decision, ret_suggestions, v_call, v_result,
          provider_vars, calendar_vars, ui_vars>>

-----------------------------------------------------------------------------
(* Exact fractions *)

Q(n, d) == IF d < 0 THEN [n |-> -n, d |-> -d] ELSE [n |-> n, d |-> d]

R(i) == [n |-> i, d |-> 1]

QSub(a, b) == Q(a.n * b.d - b.n * a.d, a.d * b.d)

QDiv(a, b) == Q(a.n * b.d, a.d * b.n)

\* Faulty variant of QAbs: the sign is kept
QAbs_signed(a) == a

QAbs(a) == IF a.n < 0 THEN [n |-> -a.n, d |-> a.d] ELSE a

\* The whole part is compared first, so that a comparison with the tiny
\* fraction 1/10^9 does not need a product beyond the integers TLC has.
QFloor(a) == a.n \div a.d

QLe(a, b) ==
    IF QFloor(a) # QFloor(b)
    THEN QFloor(a) < QFloor(b)
    ELSE (a.n % a.d) * b.d <= (b.n % b.d) * a.d

QLt(a, b) == ~QLe(b, a)

QEq(a, b) == QLe(a, b) /\ QLe(b, a)

QMax(a, b) == IF QLt(a, b) THEN b ELSE a

QMin(a, b) == IF QLt(b, a) THEN b ELSE a

QMul(a, b) == Q(a.n * b.n, a.d * b.d)

QIsZero(a) == a.n = 0

-----------------------------------------------------------------------------
(* Python dicts as sequences of <<key, value>> pairs *)

EmptyDict == <<>>

Keys(d) == [i \in 1..Len(d) |-> d[i][1]]

Values(d) == [i \in 1..Len(d) |-> d[i][2]]

HasKey(d, k) == \E i \in 1..Len(d) : d[i][1] = k

\* d[k] for a key that is present
Get(d, k) == d[CHOOSE i \in 1..Len(d) : d[i][1] = k][2]

\* d[k] = v: a present key keeps its place, a new key goes last
DictSet(d, k, v) ==
    IF HasKey(d, k)
    THEN [i \in 1..Len(d) |-> IF d[i][1] = k THEN <<k, v>> ELSE d[i]]
    ELSE Append(d, <<k, v>>)

-----------------------------------------------------------------------------
(* src/src/utils/validation.py *)

Raise(m) == [raised |-> TRUE, msg |-> m, value |-> <<>>]

Return(v) == [raised |-> FALSE, msg |-> <<>>, value |-> <<v>>]

NoResult == [raised |-> FALSE, msg |-> <<>>, value |-> <<>>]

\* Faulty variant of validate_positive: zero is let through
validate_positive_zero_ok(value, name) ==
    IF value < 0
    THEN Raise(<<name, "must be greater than zero">>)
    ELSE Return(value)

validate_positive(value, name) ==
    IF value <= 0
    THEN Raise(<<name, "must be greater than zero">>)
    ELSE Return(value)

\* min_val and max_val are <<>> for None and <<x>> for the number x
validate_range(value, name, min_val, max_val) ==
    IF min_val # <<>> /\ value < min_val[1]
    THEN Raise(<<name, "must be at least", ToString(min_val[1])>>)
    ELSE IF max_val # <<>> /\ value > max_val[1]
    THEN Raise(<<name, "must be at most", ToString(max_val[1])>>)
    ELSE Return(value)

\* Faulty variant of validate_strikes: equal strikes are let through
validate_strikes_equal_ok(put_strike, call_strike) ==
    IF put_strike > call_strike
    THEN Raise(<<"Put strike should be less than call strike for typical strategies">>)
    ELSE Return(TRUE)

validate_strikes(put_strike, call_strike) ==
    IF put_strike >= call_strike
    THEN Raise(<<"Put strike should be less than call strike for typical strategies">>)
    ELSE Return(TRUE)

\* The statements of validate_inputs in program order; the first one that
\* raises ends the call.
validate_inputs(rec) ==
    LET s1  == validate_positive(rec.price, "Price")
        s2  == validate_positive(rec.put_strike, "Put strike")
        s3  == validate_positive(rec.call_strike, "Call strike")
        s4  == validate_strikes(rec.put_strike, rec.call_strike)
        s5  == validate_range(rec.front_put_iv, "Front-week PUT IV", <<0>>, <<>>)
        s6  == validate_range(rec.front_call_iv, "Front-week CALL IV", <<0>>, <<>>)
        s7  == validate_range(rec.back_put_iv, "Back-week PUT IV", <<0>>, <<>>)
        s8  == validate_range(rec.back_call_iv, "Back-week CALL IV", <<0>>, <<>>)
        s9  == validate_range(rec.iv_rank_pct, "IV Rank", <<0>>, <<100>>)
        s10 == validate_range(rec.days_to_event, "Days to event", <<0>>, <<>>)
        s11 == validate_positive(rec.vix_value, "VIX value")
        s12 == IF rec.use_atr
               THEN validate_positive(rec.atr_points, "ATR points")
               ELSE Return(rec.atr_points)
    IN  IF s1.raised THEN s1
        ELSE IF s2.raised THEN s2
        ELSE IF s3.raised THEN s3
        ELSE IF s4.raised THEN s4
        ELSE IF s5.raised THEN s5
        ELSE IF s6.raised THEN s6
        ELSE IF s7.raised THEN s7
        ELSE IF s8.raised THEN s8
        ELSE IF s9.raised THEN s9
        ELSE IF s10.raised THEN s10
        ELSE IF s11.raised THEN s11
        ELSE IF s12.raised THEN s12
        ELSE Return(rec)

-----------------------------------------------------------------------------
(* src/src/utils/helpers.py *)

\* traffic(value, green_fn, yellow_fn), given green = green_fn(value) and
\* yellow = yellow_fn(value): the two predicates of a rule are pure, and
\* yellow is looked at only when green is false.
traffic(value, green, yellow) ==
    IF green THEN "GREEN"
    ELSE IF yellow THEN "YELLOW"
    ELSE "RED"

\* The decision labels, without the pictograph that ends each of them.
ENTER_ALL_GREEN == "ENTER (All green)"

ENTER_CAUTION == "ENTER - CAUTION"

WAIT == "WAIT"

score_map(s) == CASE s = "GREEN" -> 2 [] s = "YELLOW" -> 1 [] s = "RED" -> 0

RECURSIVE SumScores(_)
SumScores(vals) ==
    IF vals = <<>> THEN 0 ELSE score_map(Head(vals)) + SumScores(Tail(vals))

CountReds(vals) == Cardinality({i \in 1..Len(vals) : vals[i] = "RED"})

\* Faulty variant of final_decision: full entry one point short of the full score
final_decision_full_entry_lax(sts) ==
    LET score == SumScores(Values(sts))
        reds  == CountReds(Values(sts))
        n     == Len(sts)
    IN  IF score >= 2 * n - 1 /\ reds = 0 THEN ENTER_ALL_GREEN
        ELSE IF score >= 2 * (n - 1) /\ reds = 0 THEN ENTER_CAUTION
        ELSE WAIT

\* Faulty variant of final_decision: cautious entry decided by the score alone
final_decision_score_only(sts) ==
    LET score == SumScores(Values(sts))
        reds  == CountReds(Values(sts))
        n     == Len(sts)
    IN  IF score = 2 * n /\ reds = 0 THEN ENTER_ALL_GREEN
        ELSE IF score >= 2 * (n - 1) THEN ENTER_CAUTION
        ELSE WAIT

final_decision(sts) ==
    LET score == SumScores(Values(sts))
        reds  == CountReds(Values(sts))
        n     == Len(sts)
    IN  IF score = 2 * n /\ reds = 0 THEN ENTER_ALL_GREEN
        ELSE IF score >= 2 * (n - 1) /\ reds = 0 THEN ENTER_CAUTION
        ELSE WAIT

-----------------------------------------------------------------------------
(* src/src/models/options_model.py: the methods of OptionsModel.  A method *)
(* takes self = [inputs, metrics, statuses] and yields [self, ret]: the    *)
(* object after the call and the value returned.                           *)

Self == [inputs |-> inputs, metrics |-> metrics, statuses |-> statuses]

\* Faulty variant of _validate_inputs: the error is logged and not re-raised
OptionsModel_validate_inputs_swallowed(rec) == Return(rec)

\* OptionsModel._validate_inputs: logs and re-raises what validate_inputs raises
OptionsModel_validate_inputs(rec) == validate_inputs(rec)

compute_metrics(self) ==
    LET put_strike    == self.inputs.put_strike
        call_strike   == self.inputs.call_strike
        price         == self.inputs.price
        front_put_iv  == self.inputs.front_put_iv
        front_call_iv == self.inputs.front_call_iv
        back_put_iv   == self.inputs.back_put_iv
        back_call_iv  == self.inputs.back_call_iv
        atr_points    == self.inputs.atr_points
        use_atr       == self.inputs.use_atr
        midpoint      == QDiv(R(put_strike + call_strike), R(2))
        dist_from_mid == IF ~QIsZero(midpoint)
                         THEN QDiv(QAbs(QSub(R(price), midpoint)), midpoint)
                         ELSE R(1)
        strike_width  == QAbs(R(call_strike - put_strike))
        front_avg_iv  == QDiv(R(front_put_iv + front_call_iv), R(2))
        back_avg_iv   == QDiv(R(back_put_iv + back_call_iv), R(2))
        term_gap_pts  == QSub(front_avg_iv, back_avg_iv)
        iv_rank       == QDiv(R(self.inputs.iv_rank_pct), R(100))
        atr_ok        == QLe(R(atr_points),
                             QMax(Q(1, 1000000000), QDiv(strike_width, R(2))))
        m == << <<"midpoint", midpoint>>,
                <<"dist_from_mid", dist_from_mid>>,
                <<"strike_width", strike_width>>,
                <<"front_avg_iv", front_avg_iv>>,
                <<"back_avg_iv", back_avg_iv>>,
                <<"term_gap_pts", term_gap_pts>>,
                <<"iv_rank", iv_rank>>,
                <<"atr_ok", atr_ok>>,
                <<"use_atr", use_atr>>,
                <<"atr_points", atr_points>> >>
    IN  [self |-> [self EXCEPT !.metrics = m], ret |-> m]

\* "if not self.metrics: self.compute_metrics()"
ensure_metrics(self) ==
    IF self.metrics = EmptyDict THEN compute_metrics(self).self ELSE self

\* Faulty variant of the ATR guardrail step: the use_atr flag is not consulted
atr_guardrail_unconditional(self, sts) ==
    DictSet(sts, "ATR Guardrail",
        traffic(Get(self.metrics, "atr_ok"),
                     Get(self.metrics, "atr_ok") = TRUE, FALSE))

\* Faulty variant of the ATR guardrail step: a failed guardrail is only YELLOW
atr_guardrail_yellow(self, sts) ==
    IF self.inputs.use_atr
    THEN DictSet(sts, "ATR Guardrail",
             traffic(Get(self.metrics, "atr_ok"),
                     Get(self.metrics, "atr_ok") = TRUE, TRUE))
    ELSE sts

\* Faulty variant of the ATR guardrail step: a small ATR switches the guardrail on
atr_guardrail_small_atr(self, sts) ==
    IF self.inputs.use_atr \/ self.inputs.atr_points < 5
    THEN DictSet(sts, "ATR Guardrail",
             traffic(Get(self.metrics, "atr_ok"),
                     Get(self.metrics, "atr_ok") = TRUE, FALSE))
    ELSE sts

\* The optional ATR guardrail, the last step of evaluate_status_lights
atr_guardrail(self, sts) ==
    IF self.inputs.use_atr
    THEN DictSet(sts, "ATR Guardrail",
             traffic(Get(self.metrics, "atr_ok"),
                     Get(self.metrics, "atr_ok") = TRUE, FALSE))
    ELSE sts

\* Faulty variant of the rules: the Price Location thresholds are exclusive
status_rules_price_exclusive(self) ==
    LET dist == Get(self.metrics, "dist_from_mid")
        gap  == Get(self.metrics, "term_gap_pts")
        rank == Get(self.metrics, "iv_rank")
        days == self.inputs.days_to_event
        vix  == self.inputs.vix_value
        st1 == DictSet(EmptyDict, "Price Location",
                   traffic(dist, QLt(dist, Q(1, 100)), QLt(dist, Q(2, 100))))
        st2 == DictSet(st1, "Term Structure",
                   traffic(gap, QLe(R(2), gap), QLe(R(1), gap)))
        st3 == DictSet(st2, "IV Rank",
                   traffic(rank,
                           QLe(Q(30, 100), rank) /\ QLe(rank, Q(50, 100)),
                           \/ QLe(Q(20, 100), rank) /\ QLt(rank, Q(30, 100))
                           \/ QLt(Q(50, 100), rank) /\ QLe(rank, Q(60, 100))))
        st4 == DictSet(st3, "Event Proximity",
                   traffic(days, 3 <= days /\ days <= 7, 1 <= days /\ days <= 2))
        st5 == DictSet(st4, "VIX",
                   traffic(vix, 14 <= vix /\ vix <= 20, 20 < vix /\ vix <= 25))
    IN  atr_guardrail(self, st5)

\* Faulty variant of the rules: the GREEN range of Event Proximity is open
status_rules_event_open(self) ==
    LET dist == Get(self.metrics, "dist_from_mid")
        gap  == Get(self.metrics, "term_gap_pts")
        rank == Get(self.metrics, "iv_rank")
        days == self.inputs.days_to_event
        vix  == self.inputs.vix_value
        st1 == DictSet(EmptyDict, "Price Location",
                   traffic(dist, QLe(dist, Q(1, 100)), QLe(dist, Q(2, 100))))
        st2 == DictSet(st1, "Term Structure",
                   traffic(gap, QLe(R(2), gap), QLe(R(1), gap)))
        st3 == DictSet(st2, "IV Rank",
                   traffic(rank,
                           QLe(Q(30, 100), rank) /\ QLe(rank, Q(50, 100)),
                           \/ QLe(Q(20, 100), rank) /\ QLt(rank, Q(30, 100))
                           \/ QLt(Q(50, 100), rank) /\ QLe(rank, Q(60, 100))))
        st4 == DictSet(st3, "Event Proximity",
                   traffic(days, 3 < days /\ days < 7, 1 <= days /\ days <= 2))
        st5 == DictSet(st4, "VIX",
                   traffic(vix, 14 <= vix /\ vix <= 20, 20 < vix /\ vix <= 25))
    IN  atr_guardrail(self, st5)

\* Faulty variant of the rules: a VIX of exactly 20 is YELLOW
status_rules_vix_twenty_yellow(self) ==
    LET dist == Get(self.metrics, "dist_from_mid")
        gap  == Get(self.metrics, "term_gap_pts")
        rank == Get(self.metrics, "iv_rank")
        days == self.inputs.days_to_event
        vix  == self.inputs.vix_value
        st1 == DictSet(EmptyDict, "Price Location",
                   traffic(dist, QLe(dist, Q(1, 100)), QLe(dist, Q(2, 100))))
        st2 == DictSet(st1, "Term Structure",
                   traffic(gap, QLe(R(2), gap), QLe(R(1), gap)))
        st3 == DictSet(st2, "IV Rank",
                   traffic(rank,
                           QLe(Q(30, 100), rank) /\ QLe(rank, Q(50, 100)),
                           \/ QLe(Q(20, 100), rank) /\ QLt(rank, Q(30, 100))
                           \/ QLt(Q(50, 100), rank) /\ QLe(rank, Q(60, 100))))
        st4 == DictSet(st3, "Event Proximity",
                   traffic(days, 3 <= days /\ days <= 7, 1 <= days /\ days <= 2))
        st5 == DictSet(st4, "VIX",
                   traffic(vix, 14 <= vix /\ vix < 20, 20 <= vix /\ vix <= 25))
    IN  atr_guardrail(self, st5)

\* The body of evaluate_status_lights once the metrics are there:
\* self.statuses = {} and the rules in their order
status_rules(self) ==
    LET dist == Get(self.metrics, "dist_from_mid")
        gap  == Get(self.metrics, "term_gap_pts")
        rank == Get(self.metrics, "iv_rank")
        days == self.inputs.days_to_event
        vix  == self.inputs.vix_value
        st1 == DictSet(EmptyDict, "Price Location",
                   traffic(dist, QLe(dist, Q(1, 100)), QLe(dist, Q(2, 100))))
        st2 == DictSet(st1, "Term Structure",
                   traffic(gap, QLe(R(2), gap), QLe(R(1), gap)))
        st3 == DictSet(st2, "IV Rank",
                   traffic(rank,
                           QLe(Q(30, 100), rank) /\ QLe(rank, Q(50, 100)),
                           \/ QLe(Q(20, 100), rank) /\ QLt(rank, Q(30, 100))
                           \/ QLt(Q(50, 100), rank) /\ QLe(rank, Q(60, 100))))
        st4 == DictSet(st3, "Event Proximity",
                   traffic(days, 3 <= days /\ days <= 7, 1 <= days /\ days <= 2))
        st5 == DictSet(st4, "VIX",
                   traffic(vix, 14 <= vix /\ vix <= 20, 20 < vix /\ vix <= 25))
    IN  atr_guardrail(self, st5)

\* self.statuses = <the statuses>; return self.statuses
SetStatuses(self, sts) == [self |-> [self EXCEPT !.statuses = sts], ret |-> sts]

evaluate_status_lights(self) == SetStatuses(ensure_metrics(self), status_rules(ensure_metrics(self)))

\* Faulty variant of the lazy evaluation: the statuses are not evaluated on demand
ensure_statuses_skipped(self) == self

\* "if not self.statuses: self.evaluate_status_lights()"
ensure_statuses(self) ==
    IF self.statuses = EmptyDict THEN evaluate_status_lights(self).self ELSE self

WithRet(self, value) == [self |-> self, ret |-> value]

get_final_decision(self) ==
    WithRet(ensure_statuses(self), final_decision(ensure_statuses(self).statuses))

\* statuses.get(key): the value, or "None" for a key that is absent
StatusGet(sts, k) == IF HasKey(sts, k) THEN Get(sts, k) ELSE "None"

DOUBLE_CALENDAR == "Double Calendar (front week vs back week)"

OTM_VERTICAL == "Cheaper OTM Vertical (directional)"

IRON_CONDOR == "Short-duration Iron Condor (range)"

NO_TRADE == "No trade - wait for better IV/term structure or re-center strikes"

\* Faulty variant of the fallback: no sentinel is appended
no_trade_fallback_missing(suggestions) == suggestions

\* "if not suggestions: suggestions.append(<no trade>)"
no_trade_fallback(suggestions) ==
    IF suggestions = <<>> THEN Append(suggestions, NO_TRADE) ELSE suggestions

\* Faulty variant of the strategy rules: the calendar asks for a GREEN term structure
strategy_rules_calendar_green_term(iv_rank, vix_value, sts) ==
    (IF /\ StatusGet(sts, "IV Rank") = "GREEN"
        /\ StatusGet(sts, "Term Structure") = "GREEN"
        /\ StatusGet(sts, "Price Location") # "RED"
     THEN <<DOUBLE_CALENDAR>> ELSE <<>>)
    \o
    (IF /\ QLt(iv_rank, Q(25, 100))
        /\ StatusGet(sts, "Price Location") = "GREEN"
     THEN <<OTM_VERTICAL>> ELSE <<>>)
    \o
    (IF /\ QLt(Q(45, 100), iv_rank) /\ QLe(iv_rank, Q(60, 100))
        /\ vix_value >= 18
        /\ StatusGet(sts, "Price Location") = "GREEN"
     THEN <<IRON_CONDOR>> ELSE <<>>)

\* Faulty variant of the strategy rules: the iron condor is appended before the calendar
strategy_rules_condor_first(iv_rank, vix_value, sts) ==
    (IF /\ QLt(Q(45, 100), iv_rank) /\ QLe(iv_rank, Q(60, 100))
        /\ vix_value >= 18
        /\ StatusGet(sts, "Price Location") = "GREEN"
     THEN <<IRON_CONDOR>> ELSE <<>>)
    \o
    (IF /\ StatusGet(sts, "IV Rank") = "GREEN"
        /\ StatusGet(sts, "Term Structure") \in {"GREEN", "YELLOW"}
        /\ StatusGet(sts, "Price Location") # "RED"
     THEN <<DOUBLE_CALENDAR>> ELSE <<>>)
    \o
    (IF /\ QLt(iv_rank, Q(25, 100))
        /\ StatusGet(sts, "Price Location") = "GREEN"
     THEN <<OTM_VERTICAL>> ELSE <<>>)

\* The three strategy rules, each appending its suggestion when it fires
strategy_rules(iv_rank, vix_value, sts) ==
    (IF /\ StatusGet(sts, "IV Rank") = "GREEN"
        /\ StatusGet(sts, "Term Structure") \in {"GREEN", "YELLOW"}
        /\ StatusGet(sts, "Price Location") # "RED"
     THEN <<DOUBLE_CALENDAR>> ELSE <<>>)
    \o
    (IF /\ QLt(iv_rank, Q(25, 100))
        /\ StatusGet(sts, "Price Location") = "GREEN"
     THEN <<OTM_VERTICAL>> ELSE <<>>)
    \o
    (IF /\ QLt(Q(45, 100), iv_rank) /\ QLe(iv_rank, Q(60, 100))
        /\ vix_value >= 18
        /\ StatusGet(sts, "Price Location") = "GREEN"
     THEN <<IRON_CONDOR>> ELSE <<>>)

\* The body of get_strategy_suggestions once metrics and statuses are there
suggestions_of(self) ==
    no_trade_fallback(strategy_rules(Get(self.metrics, "iv_rank"),
                                     self.inputs.vix_value, self.statuses))

get_strategy_suggestions(self) ==
    WithRet(ensure_statuses(ensure_metrics(self)),
            suggestions_of(ensure_statuses(ensure_metrics(self))))

-----------------------------------------------------------------------------
(* src/src/utils/ibkr_client.py: the provider IBKRClient.                  *)
(*                                                                         *)
(* A Python value that a request or a lookup yields is a record [k, v]:    *)
(* k = "None" for None, "nan" for the float not-a-number, "bool" for a     *)
(* truth value (v is 1 or 0) and "num" for the finite number v, an exact   *)
(* fraction.  A request that raises answers Raises.                        *)
(*                                                                         *)
(* A lookup takes the brokerage side, the state of the connection and the  *)
(* answers of the upstream sources, and yields [connected, raised, value,  *)
(* trace]: the connection after the call, whether an exception escaped,    *)
(* the value returned and the market-data requests made, in order.         *)
(* ensure_connected also selects the market data type after connecting     *)
(* (reqMarketDataType); no code that can run reads that selection back.    *)

PyNone == [k |-> "None", v |-> R(0)]

PyNaN == [k |-> "nan", v |-> R(0)]

Num(q) == [k |-> "num", v |-> q]

PyBool(b) == [k |-> "bool", v |-> IF b THEN R(1) ELSE R(0)]

Raises == [k |-> "raises", v |-> R(0)]

\* bool(x): None and zero are false, not-a-number is true like every non-zero float
Truthy(x) == x.k = "nan" \/ (x.k \in {"num", "bool"} /\ ~QIsZero(x.v))

\* "a or b"
PyOr(a, b) == IF Truthy(a) THEN a ELSE b

\* "x is not None and math.isfinite(x)"
IsFiniteNumber(x) == x.k = "num"

Done(conn, value, trace) ==
    [connected |-> conn, raised |-> FALSE, value |-> value, trace |-> trace]

Escaped(conn, trace) ==
    [connected |-> conn, raised |-> TRUE, value |-> PyNone, trace |-> trace]

\* Faulty variant: a gateway that cannot be reached counts as connected
ensure_connected_optimistic(side, conn) ==
    IF side = "no_ib_insync"
    THEN [ok |-> FALSE, connected |-> conn]
    ELSE [ok |-> TRUE, connected |-> TRUE]

\* IBKRClient.ensure_connected: [ok, connected], the value returned and the
\* connection afterwards
ensure_connected(side, conn) ==
    IF side = "no_ib_insync"
    THEN [ok |-> FALSE, connected |-> conn]
    ELSE IF conn
         THEN [ok |-> TRUE, connected |-> TRUE]
         ELSE IF side = "reachable"
              THEN [ok |-> TRUE, connected |-> TRUE]
              ELSE [ok |-> FALSE, connected |-> FALSE]

\* IBKRClient.get_underlying_price: the body ends after the connection test,
\* so a connected client falls off the end of the function and returns None
get_underlying_price(side, conn) ==
    IF ~ensure_connected(side, conn).ok
    THEN Done(ensure_connected(side, conn).connected, PyNone, <<>>)
    ELSE Done(ensure_connected(side, conn).connected, PyNone, <<>>)

\* The try block of get_vix: <<v>> when it returns float(v), <<>> when it
\* falls through to the fallback.  quote = [raises, last, close].
get_vix_primary(quote) ==
    IF quote.raises
    THEN <<>>
    ELSE IF Truthy(PyOr(quote.last, quote.close))
         THEN <<PyOr(quote.last, quote.close)>>
         ELSE <<>>

\* The fallback of get_vix.  yahoo = [kind, close], kind "raises", "empty" or "data"
get_vix_fallback(yfin, yahoo) ==
    IF ~yfin
    THEN PyNone
    ELSE IF yahoo.kind = "raises"
         THEN PyNone
         ELSE IF yahoo.kind = "empty" THEN PyNone ELSE yahoo.close

VIX_QUOTE == "IBKR quote of VIX"

VIX_YAHOO == "yfinance history of ^VIX, 1d"

get_vix_after(c, yfin, quote, yahoo) ==
    IF c.ok /\ get_vix_primary(quote) # <<>>
    THEN Done(c.connected, get_vix_primary(quote)[1], <<VIX_QUOTE>>)
    ELSE Done(c.connected, get_vix_fallback(yfin, yahoo),
              (IF c.ok THEN <<VIX_QUOTE>> ELSE <<>>)
              \o (IF yfin THEN <<VIX_YAHOO>> ELSE <<>>))

\* IBKRClient.get_vix
get_vix(side, yfin, conn, quote, yahoo) ==
    get_vix_after(ensure_connected(side, conn), yfin, quote, yahoo)

IvKeys == <<"front_put_iv", "front_call_iv", "back_put_iv", "back_call_iv">>

IvRequests ==
    <<"IBKR greeks of the front put", "IBKR greeks of the front call",
      "IBKR greeks of the back put", "IBKR greeks of the back call">>

\* the value _iv returns when its requests do not raise: a model IV below 1.0
\* is a fraction and is scaled to percent
inner_iv(answer) ==
    IF answer.k = "num" /\ QLt(answer.v, R(1))
    THEN Num(QMul(answer.v, R(100)))
    ELSE answer

\* the first of the four _iv calls whose request raises
FirstRaising(answers) ==
    CHOOSE i \in 1..4 : /\ answers[i].k = "raises"
                        /\ \A j \in 1..(i - 1) : answers[j].k # "raises"

get_option_ivs_after(c, answers) ==
    IF ~c.ok
    THEN Done(c.connected, [i \in 1..4 |-> <<IvKeys[i], PyNone>>], <<>>)
    ELSE IF \E i \in 1..4 : answers[i].k = "raises"
         THEN Escaped(c.connected, SubSeq(IvRequests, 1, FirstRaising(answers)))
         ELSE Done(c.connected,
                   [i \in 1..4 |-> <<IvKeys[i], inner_iv(answers[i])>>],
                   IvRequests)

\* IBKRClient.get_option_ivs: the dict is built by four _iv calls in the order
\* of IvKeys; _iv has no handler, so what a request raises leaves the call
get_option_ivs(side, conn, answers) ==
    get_option_ivs_after(ensure_connected(side, conn), answers)

\* "if len(series) >= 5"
MinObservations == 5

\* [b.close for b in bars if b.close is not None and math.isfinite(b.close)],
\* and data["Close"].dropna()
finite_closes(bars) == SelectSeq(bars, IsFiniteNumber)

SeqMin(series) ==
    series[CHOOSE i \in 1..Len(series) :
               \A j \in 1..Len(series) : QLe(series[i].v, series[j].v)].v

SeqMax(series) ==
    series[CHOOSE i \in 1..Len(series) :
               \A j \in 1..Len(series) : QLe(series[j].v, series[i].v)].v

\* Faulty variant of the rank: the position in the range is not scaled to percent
rank_value_unscaled(cur, lo, hi) ==
    QMax(R(0), QMin(R(100), QDiv(QSub(cur, lo), QSub(hi, lo))))

\* rank = (cur - lo) / (hi - lo) * 100.0; rank = max(0.0, min(100.0, float(rank)))
rank_value(cur, lo, hi) ==
    QMax(R(0), QMin(R(100), QMul(QDiv(QSub(cur, lo), QSub(hi, lo)), R(100))))

\* cur, lo, hi of a non-empty series and "if hi > lo": <<rank>>, or <<>> when
\* the series is flat
percent_rank(series) ==
    IF QLt(SeqMin(series), SeqMax(series))
    THEN <<Num(rank_value(series[Len(series)].v, SeqMin(series), SeqMax(series)))>>
    ELSE <<>>

IVR_QUALIFY == "IBKR qualify underlying"

IVR_PARAMS == "IBKR option parameters"

IVR_PROBE == "IBKR contract details"

IVR_HISTORY == "IBKR implied volatility history"

IVR_YAHOO == "yfinance history of ^VIX, 252d"

\* the loop over the candidate strikes and the rights C, P: a probe that
\* raises or answers nothing is passed over, the first contract found ends it
probe_finds(probes) == \E i \in 1..Len(probes) : probes[i] = "found"

probes_made(probes) ==
    IF probe_finds(probes)
    THEN CHOOSE i \in 1..Len(probes) :
             /\ probes[i] = "found"
             /\ \A j \in 1..(i - 1) : probes[j] # "found"
    ELSE Len(probes)

\* The try block of get_iv_rank for a connected client: the requests it makes.
\* prim = [qualify, params, probes, history] are the answers of the gateway.
iv_rank_primary_trace(prim) ==
    IF prim.qualify = "raises"
    THEN <<IVR_QUALIFY>>
    ELSE IF prim.params # "ok"
         THEN <<IVR_QUALIFY, IVR_PARAMS>>
         ELSE <<IVR_QUALIFY, IVR_PARAMS>>
              \o [i \in 1..probes_made(prim.probes) |-> IVR_PROBE]
              \o (IF probe_finds(prim.probes) THEN <<IVR_HISTORY>> ELSE <<>>)

\* Faulty variant of the try block: four observations are enough
iv_rank_primary_four(prim) ==
    IF prim.qualify = "raises"
    THEN <<>>
    ELSE IF prim.params # "ok"
         THEN <<>>
         ELSE IF ~probe_finds(prim.probes)
              THEN <<>>
              ELSE IF prim.history.kind = "raises"
                   THEN <<>>
                   ELSE IF Len(finite_closes(prim.history.bars)) >= MinObservations - 1
                        THEN percent_rank(finite_closes(prim.history.bars))
                        ELSE <<>>

\* The try block of get_iv_rank for a connected client: <<rank>> when it
\* returns, <<>> when it falls through or an error is caught.  The price
\* asked of get_underlying_price is None, so the candidates are the strikes
\* around the middle of the list; empty parameters, expirations or strikes
\* and a probing without result raise RuntimeError inside the block.
iv_rank_primary(prim) ==
    IF prim.qualify = "raises"
    THEN <<>>
    ELSE IF prim.params # "ok"
         THEN <<>>
         ELSE IF ~probe_finds(prim.probes)
              THEN <<>>
              ELSE IF prim.history.kind = "raises"
                   THEN <<>>
                   ELSE IF Len(finite_closes(prim.history.bars)) >= MinObservations
                        THEN percent_rank(finite_closes(prim.history.bars))
                        ELSE <<>>

\* The fallback of get_iv_rank.  sec = [kind, closes], kind "raises" or "data";
\* an empty frame has no closes.
iv_rank_fallback(yfin, sec) ==
    IF ~yfin
    THEN PyNone
    ELSE IF sec.kind = "raises"
         THEN PyNone
         ELSE IF sec.closes = <<>>
              THEN PyNone
              ELSE IF finite_closes(sec.closes) = <<>>
                   THEN PyNone
                   ELSE IF percent_rank(finite_closes(sec.closes)) = <<>>
                        THEN PyNone
                        ELSE percent_rank(finite_closes(sec.closes))[1]

get_iv_rank_after(c, yfin, prim, sec) ==
    IF c.ok /\ iv_rank_primary(prim) # <<>>
    THEN Done(c.connected, iv_rank_primary(prim)[1], iv_rank_primary_trace(prim))
    ELSE Done(c.connected, iv_rank_fallback(yfin, sec),
              (IF c.ok THEN iv_rank_primary_trace(prim) ELSE <<>>)
              \o (IF yfin THEN <<IVR_YAHOO>> ELSE <<>>))

\* IBKRClient.get_iv_rank
get_iv_rank(side, yfin, conn, prim, sec) ==
    get_iv_rank_after(ensure_connected(side, conn), yfin, prim, sec)

-----------------------------------------------------------------------------
(* Dates are proleptic Gregorian ordinals (date.toordinal): day 1 is a     *)
(* Monday, and date + timedelta(days=n) is the ordinal plus n.             *)

\* date.weekday(): Monday is 0, Friday is 4
weekday(d) == (d + 6) % 7

FRIDAY == 4

\* "from_date or dt.date.today()": a date is never false, None is
date_or_today(arg, now) == IF arg = <<>> THEN now ELSE arg[1]

\* days_ahead = (4 - d.weekday()) % 7
days_ahead(d) == (FRIDAY - weekday(d)) % 7

\* Faulty variant: a Friday is sent to the Friday of the week after
nearest_two_fridays_strict(arg, now) ==
    IF days_ahead(date_or_today(arg, now)) = 0
    THEN <<date_or_today(arg, now) + 7, date_or_today(arg, now) + 14>>
    ELSE <<date_or_today(arg, now) + days_ahead(date_or_today(arg, now)),
           date_or_today(arg, now) + days_ahead(date_or_today(arg, now)) + 7>>

\* IBKRClient.nearest_two_fridays(from_date): <<first, second>>
nearest_two_fridays(arg, now) ==
    IF days_ahead(date_or_today(arg, now)) = 0
    THEN <<date_or_today(arg, now), date_or_today(arg, now) + 7>>
    ELSE <<date_or_today(arg, now) + days_ahead(date_or_today(arg, now)),
           date_or_today(arg, now) + days_ahead(date_or_today(arg, now)) + 7>>

-----------------------------------------------------------------------------
(* src/src/components/ui.py: render_sidebar, the input mode, the provider  *)
(* cache st.session_state.auto_data and the acquisition cycle.  The client *)
(* of a cycle is new (not connected) and serves the four lookups in turn.  *)
(* e = [answers, quote, yahoo, prim, sec] is what the upstream sources     *)
(* answer during the cycle.                                                *)

MANUAL == "Manual"

AUTO == "Auto (IBKR)"

Symbols == {"SPY", "QQQ", "IWM"}

\* d.get(k), and d.get(k, default)
dict_get(d, k, default) == IF HasKey(d, k) THEN Get(d, k) ELSE default

RECURSIVE dict_update(_, _)
\* d.update(u): the keys of u are set in their order
dict_update(d, u) ==
    IF u = <<>> THEN d ELSE dict_update(DictSet(d, u[1][1], u[1][2]), Tail(u))

\* Faulty variant: only the refresh button starts an acquisition cycle
need_fetch_refresh_only(do_refresh, auto) == do_refresh

\* need_fetch = do_refresh or not bool(st.session_state.auto_data)
need_fetch(do_refresh, auto) == do_refresh \/ auto = EmptyDict

\* round(x) of a fraction: to the nearest integer, a tie to the even one
round_half_even(q) ==
    IF 2 * (q.n - QFloor(q) * q.d) < q.d
    THEN QFloor(q)
    ELSE IF 2 * (q.n - QFloor(q) * q.d) > q.d
         THEN QFloor(q) + 1
         ELSE IF QFloor(q) % 2 = 0 THEN QFloor(q) ELSE QFloor(q) + 1

\* tmp_symbol = st.session_state.auto_data.get("symbol", "SPY")
tmp_symbol(auto) == dict_get(auto, "symbol", "SPY")

\* price_auto = client.get_underlying_price(tmp_symbol), by the new client
cycle_price(side) == get_underlying_price(side, FALSE)

\* "if price_auto is not None and (put_auto is None or call_auto is None)"
seeds_strikes(side, auto) ==
    /\ cycle_price(side).value # PyNone
    /\ \/ dict_get(auto, "put_strike", PyNone) = PyNone
       \/ dict_get(auto, "call_strike", PyNone) = PyNone

\* base = round(price_auto / 5) * 5
seed_base(side) == round_half_even(QDiv(cycle_price(side).value.v, R(5))) * 5

put_auto(side, auto) ==
    IF seeds_strikes(side, auto)
    THEN Num(R(seed_base(side) - 10))
    ELSE dict_get(auto, "put_strike", PyNone)

call_auto(side, auto) ==
    IF seeds_strikes(side, auto)
    THEN Num(R(seed_base(side) + 10))
    ELSE dict_get(auto, "call_strike", PyNone)

\* "if price_auto is not None and put_auto is not None and call_auto is not None"
fetches_ivs(side, auto) ==
    /\ cycle_price(side).value # PyNone
    /\ put_auto(side, auto) # PyNone
    /\ call_auto(side, auto) # PyNone

\* ivs: the dict of four None, or what client.get_option_ivs returns
cycle_ivs(side, auto, e) ==
    IF fetches_ivs(side, auto)
    THEN get_option_ivs(side, cycle_price(side).connected, e.answers)
    ELSE Done(cycle_price(side).connected,
              [i \in 1..4 |-> <<IvKeys[i], PyNone>>], <<>>)

\* vix_val = client.get_vix()
cycle_vix(side, yfin, auto, e) ==
    get_vix(side, yfin, cycle_ivs(side, auto, e).connected, e.quote, e.yahoo)

\* iv_rank_auto = client.get_iv_rank(tmp_symbol)
cycle_iv_rank(side, yfin, auto, e) ==
    get_iv_rank(side, yfin, cycle_vix(side, yfin, auto, e).connected,
                e.prim, e.sec)

\* the lookups of the cycle, in the order they are made; what
\* get_option_ivs raises leaves render_sidebar before the later lookups
cycle_lookups(side, auto, e) ==
    <<"get_underlying_price">>
    \o (IF fetches_ivs(side, auto) THEN <<"get_option_ivs">> ELSE <<>>)
    \o (IF cycle_ivs(side, auto, e).raised
        THEN <<>>
        ELSE <<"get_vix", "get_iv_rank">>)

\* date.isoformat(): the text of a date, kept as the date it denotes
isoformat(d) == [k |-> "str", v |-> d]

\* the argument of st.session_state.auto_data.update
cycle_update(side, yfin, auto, e, now) ==
    <<<<"symbol", tmp_symbol(auto)>>,
      <<"price", cycle_price(side).value>>,
      <<"put_strike", put_auto(side, auto)>>,
      <<"call_strike", call_auto(side, auto)>>>>
    \o cycle_ivs(side, auto, e).value
    \o <<<<"vix_value", cycle_vix(side, yfin, auto, e).value>>,
         <<"iv_rank_pct", cycle_iv_rank(side, yfin, auto, e).value>>,
         <<"front_expiry", isoformat(nearest_two_fridays(<<>>, now)[1])>>,
         <<"back_expiry", isoformat(nearest_two_fridays(<<>>, now)[2])>>>>

\* the cache after the block "if mode == Auto": rewritten by a cycle,
\* untouched without one
cache_after_fetch(side, yfin, auto, m, do_refresh, e, now) ==
    IF m = AUTO /\ need_fetch(do_refresh, auto)
    THEN dict_update(auto, cycle_update(side, yfin, auto, e, now))
    ELSE auto

\* "if mode == Auto: st.session_state.auto_data["symbol"] = symbol"
cache_after_symbol(auto, m, symbol) ==
    IF m = AUTO THEN DictSet(auto, "symbol", symbol) ELSE auto

-----------------------------------------------------------------------------
(* The input records.  The keys are those render_sidebar puts in the       *)
(* record (src/src/components/ui.py) and the tests use.                    *)

Rec(price, put, call, fp, fc, bp, bc, ivr, dte, vix, atr, ua) ==
    [symbol |-> "SPY", price |-> price, put_strike |-> put, call_strike |-> call,
     front_put_iv |-> fp, front_call_iv |-> fc, back_put_iv |-> bp,
     back_call_iv |-> bc, iv_rank_pct |-> ivr, days_to_event |-> dte,
     vix_value |-> vix, atr_points |-> atr, use_atr |-> ua]

\* Records that pass validation, strikes 90/110 (midpoint 100, width 20),
\* chosen so that every rule takes each of its statuses, with the boundary
\* values of the thresholds among them.
EnginePrices == {80, 100, 101, 102, 103}

EngineBackCallIVs == {18, 20, 24}

EngineIVRanks == {10, 22, 27, 40, 48, 55, 70}

EngineDays == {0, 2, 5, 8}

EngineVIX == {10, 17, 19, 22, 30}

EngineATR == {10, 12}

EngineRecords ==
    { Rec(price, 90, 110, 20, 20, 18, bc, ivr, dte, vix, atr, ua) :
        price \in EnginePrices, bc \in EngineBackCallIVs, ivr \in EngineIVRanks,
        dte \in EngineDays, vix \in EngineVIX, atr \in EngineATR, ua \in BOOLEAN }

\* Records that pass validation with the fields on the thresholds of the rules:
\* distance 0 and 0.02, term gaps 3, 1.5 and 0.5, IV ranks and VIX values on the
\* bounds of the status and strategy rules, days 1, 3 and 7.
BoundaryRecords ==
    { Rec(price, 90, 110, 20, 20, 18, bc, ivr, dte, vix, 10, FALSE) :
        price \in {98, 100}, bc \in {16, 19, 21},
        ivr \in {0, 20, 25, 30, 45, 50, 60, 100},
        dte \in {1, 3, 7}, vix \in {14, 18, 20, 25} }

\* Records in which every field is either acceptable or violates its rule,
\* in every combination.
ViolationRecords ==
    { Rec(price, put, call, fp, fc, bp, bc, ivr, dte, vix, atr, ua) :
        price \in {0, 100}, put \in {0, 90, 110}, call \in {0, 90, 110},
        fp \in {-1, 20}, fc \in {-1, 20}, bp \in {-1, 18}, bc \in {-1, 18},
        ivr \in {-1, 40, 101}, dte \in {-1, 5}, vix \in {0, 17},
        atr \in {0, 10}, ua \in BOOLEAN }

Methods == {"compute_metrics", "evaluate_status_lights",
            "get_final_decision", "get_strategy_suggestions"}

-----------------------------------------------------------------------------
(* The answers of the upstream sources *)

\* longest history the gateway answers with
MaxBars == 5

\* longest history the secondary source answers with
MaxCloses == 2

\* what a quote field holds: nothing, not-a-number, zero or the price x
TickValues(x) == {PyNone, PyNaN, Num(R(0)), Num(R(x))}

\* the four sources of the underlying price: each has the price or has none
PriceAnswers ==
    [live : {PyNaN, Num(R(101))}, delayed_tick : {PyNaN, Num(R(102))},
     daily_close : {PyNone, Num(R(103))}, yahoo : {PyNone, Num(R(104))}]

\* the VIX quote of the gateway: the request raises, or the ticker has last and close
VixQuotes ==
    {[raises |-> TRUE, last |-> PyNone, close |-> PyNone]}
    \cup [raises : {FALSE}, last : TickValues(17), close : TickValues(16)]

\* the one-day history of ^VIX: the request raises, the frame is empty, or
\* its last close is a number or not-a-number
VixYahoo ==
    {[kind |-> "raises", close |-> PyNone], [kind |-> "empty", close |-> PyNone]}
    \cup [kind : {"data"}, close : {PyNaN, Num(R(18))}]

\* the model IV of one option: the request raises, there are no model greeks,
\* or the IV comes as a fraction (0.22) or already in percent (25)
IvAnswers == {Raises, PyNone, Num(Q(22, 100)), Num(R(25))}

HistoryValues == {PyNaN, Num(R(1)), Num(R(2)), Num(R(3))}

ProbesFound == {<<"found">>, <<"empty", "found">>, <<"raises", "found">>}

ProbesNotFound ==
    {<<"empty", "empty">>, <<"empty", "raises">>, <<"raises", "empty">>,
     <<"raises", "raises">>}

NoHistory == [kind |-> "unasked", bars |-> <<>>]

Prim(q, p, pr, h) == [qualify |-> q, params |-> p, probes |-> pr, history |-> h]

NoPrimary == Prim("unasked", "unasked", <<>>, NoHistory)

\* the answers of the gateway to the requests of get_iv_rank, up to the request
\* that ends the try block
PrimaryAnswers ==
    {Prim("raises", "unasked", <<>>, NoHistory)}
    \cup {Prim("ok", p, <<>>, NoHistory) :
             p \in {"raises", "none", "no_expirations", "no_strikes"}}
    \cup {Prim("ok", "ok", pr, NoHistory) : pr \in ProbesNotFound}
    \cup {Prim("ok", "ok", pr, [kind |-> "raises", bars |-> <<>>]) : pr \in ProbesFound}
    \cup {Prim("ok", "ok", pr, [kind |-> "bars", bars |-> b]) :
             pr \in ProbesFound, b \in [1..MaxBars -> HistoryValues]}

NoSecondary == [kind |-> "unasked", closes |-> <<>>]

\* the 252-day history of ^VIX
SecondaryAnswers ==
    {[kind |-> "raises", closes |-> <<>>]}
    \cup {[kind |-> "data", closes |-> c] :
             c \in UNION {[1..n -> HistoryValues] : n \in 0..MaxCloses}}

\* last reference date of the calendar
MaxDay == 14

\* renders of one session
MaxRenders == 4

\* the days on which the session runs: a Wednesday and a Friday
SessionDays == {3, 5}

NoIvAnswers == [i \in 1..4 |-> PyNone]

NoQuote == [raises |-> TRUE, last |-> PyNone, close |-> PyNone]

NoYahoo == [kind |-> "unasked", close |-> PyNone]

NoAnswers ==
    [answers |-> NoIvAnswers, quote |-> NoQuote, yahoo |-> NoYahoo,
     prim |-> NoPrimary, sec |-> NoSecondary]

\* the four model IVs during a cycle: all in percent, or the first request raises
CycleIvAnswers ==
    {[i \in 1..4 |-> Num(R(25))], [i \in 1..4 |-> IF i = 1 THEN Raises ELSE Num(R(25))]}

\* the VIX quote during a cycle: the request raises, or last is 17
CycleVixQuotes == {NoQuote, [raises |-> FALSE, last |-> Num(R(17)), close |-> Num(R(16))]}

\* the one-day history of ^VIX during a cycle: empty, or the close 18
CycleVixYahoo ==
    {[kind |-> "empty", close |-> PyNone], [kind |-> "data", close |-> Num(R(18))]}

\* the gateway during get_iv_rank of a cycle: no option parameters, or a
\* history of five closes whose last lies in the middle of the range
CyclePrimary ==
    {Prim("ok", "none", <<>>, NoHistory),
     Prim("ok", "ok", <<"found">>,
          [kind |-> "bars",
           bars |-> <<Num(R(1)), Num(R(3)), Num(R(1)), Num(R(3)), Num(R(2))>>])}

\* the 252-day history of ^VIX during a cycle: the request raises, or two
\* closes of which the last is the highest
CycleSecondary ==
    {[kind |-> "raises", closes |-> <<>>],
     [kind |-> "data", closes |-> <<Num(R(1)), Num(R(2))>>]}

\* a source answers only the requests made of it
CycleAnswers(side, yfin, auto) ==
    { e \in [answers : CycleIvAnswers \cup {NoIvAnswers},
             quote : CycleVixQuotes,
             yahoo : CycleVixYahoo \cup {NoYahoo},
             prim : CyclePrimary \cup {NoPrimary},
             sec : CycleSecondary \cup {NoSecondary}] :
        /\ e.answers = NoIvAnswers <=> ~(side = "reachable" /\ fetches_ivs(side, auto))
        /\ side # "reachable" => e.quote = NoQuote
        /\ e.yahoo = NoYahoo
               <=> ~(yfin /\ ~(side = "reachable" /\ get_vix_primary(e.quote) # <<>>))
        /\ e.prim = NoPrimary <=> side # "reachable"
        /\ e.sec = NoSecondary
               <=> ~(yfin /\ ~(side = "reachable" /\ iv_rank_primary(e.prim) # <<>>)) }

-----------------------------------------------------------------------------
(* The state machine *)

InitWith(records) ==
    /\ inputs \in records
    /\ phase = "new"
    /\ error = <<>>
    /\ metrics = EmptyDict
    /\ statuses = EmptyDict
    /\ called = {}
    /\ ret_metrics = EmptyDict
    /\ ret_statuses = EmptyDict
    /\ ret_decision = ""
    /\ ret_suggestions = <<>>
    /\ v_call = "none"
    /\ v_result = NoResult

\* the provider before its first lookup
ProviderIdle ==
    /\ connected = FALSE
    /\ lk_call = "none"
    /\ lk_env = <<>>
    /\ lk_trace = <<>>
    /\ lk_out = [raised |-> FALSE, value |-> PyNone]

\* the engine on its own: no provider is constructed
NoProvider ==
    /\ ibkr = "no_ib_insync"
    /\ yf_installed = FALSE
    /\ ProviderIdle

\* no date is asked for
NoCalendar ==
    /\ today = 1
    /\ from_date = <<>>
    /\ fridays = <<>>

\* the session of a page that has an empty cache and has made no lookup
SessionWith(m, n) ==
    /\ mode = m
    /\ auto_data = EmptyDict
    /\ ibkr_last_updated = <<>>
    /\ renders = n
    /\ ui_refresh = FALSE
    /\ selected = "SPY"
    /\ ui_lookups = <<>>
    /\ ui_env = NoAnswers
    /\ ui_connected = FALSE
    /\ fetched_for = ""

\* the engine on its own: no page is rendered
NoSession == SessionWith("none", 0)

Init ==
    /\ InitWith(EngineRecords \cup BoundaryRecords \cup ViolationRecords)
    /\ NoProvider /\ NoCalendar /\ NoSession

InitValidation ==
    /\ InitWith(ViolationRecords)
    /\ NoProvider /\ NoCalendar /\ NoSession

\* OptionsModel.__init__: model = OptionsModel(inputs)
Construct ==
    /\ phase = "new"
    /\ metrics' = EmptyDict
    /\ statuses' = EmptyDict
    /\ LET r == OptionsModel_validate_inputs(inputs)
       IN  IF r.raised
           THEN phase' = "failed" /\ error' = r.msg
           ELSE phase' = "ready" /\ error' = <<>>
    /\ UNCHANGED <<inputs, called, ret_metrics, ret_statuses, ret_decision,
                   ret_suggestions, v_call, v_result,
                   provider_vars, calendar_vars, ui_vars>>

\* model.compute_metrics()
ComputeMetrics ==
    /\ phase = "ready"
    /\ LET r == compute_metrics(Self)
       IN  /\ metrics' = r.self.metrics
           /\ statuses' = r.self.statuses
           /\ ret_metrics' = r.ret
    /\ called' = called \cup {"compute_metrics"}
    /\ UNCHANGED <<inputs, phase, error, ret_statuses, ret_decision,
                   ret_suggestions, v_call, v_result,
                   provider_vars, calendar_vars, ui_vars>>

\* model.evaluate_status_lights()
EvaluateStatusLights ==
    /\ phase = "ready"
    /\ LET r == evaluate_status_lights(Self)
       IN  /\ metrics' = r.self.metrics
           /\ statuses' = r.self.statuses
           /\ ret_statuses' = r.ret
    /\ called' = called \cup {"evaluate_status_lights"}
    /\ UNCHANGED <<inputs, phase, error, ret_metrics, ret_decision,
                   ret_suggestions, v_call, v_result,
                   provider_vars, calendar_vars, ui_vars>>

\* model.get_final_decision()
GetFinalDecision ==
    /\ phase = "ready"
    /\ LET r == get_final_decision(Self)
       IN  /\ metrics' = r.self.metrics
           /\ statuses' = r.self.statuses
           /\ ret_decision' = r.ret
    /\ called' = called \cup {"get_final_decision"}
    /\ UNCHANGED <<inputs, phase, error, ret_metrics, ret_statuses,
                   ret_suggestions, v_call, v_result,
                   provider_vars, calendar_vars, ui_vars>>

\* model.get_strategy_suggestions()
GetStrategySuggestions ==
    /\ phase = "ready"
    /\ LET r == get_strategy_suggestions(Self)
       IN  /\ metrics' = r.self.metrics
           /\ statuses' = r.self.statuses
           /\ ret_suggestions' = r.ret
    /\ called' = called \cup {"get_strategy_suggestions"}
    /\ UNCHANGED <<inputs, phase, error, ret_metrics, ret_statuses,
                   ret_decision, v_call, v_result,
                   provider_vars, calendar_vars, ui_vars>>

\* validate_strikes(put, call) called on its own, as the tests do
ValidateStrikesCall ==
    /\ v_call' = "validate_strikes"
    /\ v_result' = validate_strikes(inputs.put_strike, inputs.call_strike)
    /\ UNCHANGED <<inputs, phase, error, metrics, statuses, called, ret_metrics,
                   ret_statuses, ret_decision, ret_suggestions,
                   provider_vars, calendar_vars, ui_vars>>

\* validate_inputs(inputs) called on its own, as the tests do
ValidateInputsCall ==
    /\ v_call' = "validate_inputs"
    /\ v_result' = validate_inputs(inputs)
    /\ UNCHANGED <<inputs, phase, error, metrics, statuses, called, ret_metrics,
                   ret_statuses, ret_decision, ret_suggestions,
                   provider_vars, calendar_vars, ui_vars>>

Next ==
    \/ Construct
    \/ ComputeMetrics
    \/ EvaluateStatusLights
    \/ GetFinalDecision
    \/ GetStrategySuggestions

Spec == Init /\ [][Next]_vars

NextValidation ==
    \/ ValidateStrikesCall
    \/ ValidateInputsCall
    \/ Construct

SpecValidation == InitValidation /\ [][NextValidation]_vars

\* client = IBKRClient(...): self.ib = None
InitProvider ==
    /\ InitWith({Rec(100, 90, 110, 20, 20, 18, 18, 40, 5, 17, 10, FALSE)})
    /\ ibkr \in {"no_ib_insync", "unreachable", "reachable"}
    /\ yf_installed \in BOOLEAN
    /\ ProviderIdle
    /\ NoCalendar /\ NoSession

\* what a lookup leaves behind
Looked(name, env, r) ==
    /\ lk_call' = name
    /\ lk_env' = env
    /\ connected' = r.connected
    /\ lk_trace' = r.trace
    /\ lk_out' = [raised |-> r.raised, value |-> r.value]
    /\ UNCHANGED <<inputs, phase, error, metrics, statuses, called, ret_metrics,
                   ret_statuses, ret_decision, ret_suggestions, v_call, v_result,
                   ibkr, yf_installed, calendar_vars, ui_vars>>

\* A client serves one data lookup, on its own or after ensure_connected was
\* called on it: the lookup then meets the client not yet connected, connected,
\* or refused.
Unused == lk_call \in {"none", "ensure_connected"}

\* client.ensure_connected()
EnsureConnected ==
    /\ lk_call = "none"
    /\ Looked("ensure_connected", <<>>,
              Done(ensure_connected(ibkr, connected).connected,
                   PyBool(ensure_connected(ibkr, connected).ok), <<>>))

\* client.get_underlying_price(symbol)
GetUnderlyingPrice ==
    /\ Unused
    /\ \E env \in PriceAnswers :
        Looked("get_underlying_price", env, get_underlying_price(ibkr, connected))

\* client.get_option_ivs(symbol, front_exp, back_exp, put_strike, call_strike)
GetOptionIvs ==
    /\ Unused
    /\ \E answers \in [1..4 -> IvAnswers] :
        Looked("get_option_ivs", answers, get_option_ivs(ibkr, connected, answers))

\* client.get_vix()
GetVix ==
    /\ Unused
    /\ \E quote \in VixQuotes, yahoo \in VixYahoo :
        Looked("get_vix", [quote |-> quote, yahoo |-> yahoo],
               get_vix(ibkr, yf_installed, connected, quote, yahoo))

\* client.get_iv_rank(symbol): a source answers only the requests made of it
GetIvRank ==
    /\ Unused
    /\ \E prim \in IF ensure_connected(ibkr, connected).ok
                THEN PrimaryAnswers ELSE {NoPrimary} :
        \E sec \in IF /\ yf_installed
                      /\ ~(/\ ensure_connected(ibkr, connected).ok
                           /\ iv_rank_primary(prim) # <<>>)
                   THEN SecondaryAnswers ELSE {NoSecondary} :
            Looked("get_iv_rank", [primary |-> prim, secondary |-> sec],
                   get_iv_rank(ibkr, yf_installed, connected, prim, sec))

NextProvider ==
    \/ EnsureConnected
    \/ GetUnderlyingPrice
    \/ GetOptionIvs
    \/ GetVix
    \/ GetIvRank

SpecProvider == InitProvider /\ [][NextProvider]_vars

\* the reference dates and the days on which the call is made
InitFridays ==
    /\ InitWith({Rec(100, 90, 110, 20, 20, 18, 18, 40, 5, 17, 10, FALSE)})
    /\ NoProvider /\ NoSession
    /\ today \in 1..MaxDay
    /\ from_date \in {<<>>} \cup {<<d>> : d \in 1..MaxDay}
    /\ fridays = <<>>

\* IBKRClient.nearest_two_fridays(from_date), a static method: no client
NearestTwoFridays ==
    /\ fridays = <<>>
    /\ fridays' = nearest_two_fridays(from_date, today)
    /\ UNCHANGED <<inputs, phase, error, metrics, statuses, called, ret_metrics,
                   ret_statuses, ret_decision, ret_suggestions, v_call, v_result,
                   provider_vars, today, from_date, ui_vars>>

NextFridays == NearestTwoFridays

SpecFridays == InitFridays /\ [][NextFridays]_vars

\* The page after its first render: the radio shows its first option, Manual,
\* the select box SPY, no button was pressed, and lines 84-87 made the cache
\* empty and the timestamp None.
InitSession ==
    /\ InitWith({Rec(100, 90, 110, 20, 20, 18, 18, 40, 5, 17, 10, FALSE)})
    /\ ibkr \in {"no_ib_insync", "unreachable", "reachable"}
    /\ yf_installed \in BOOLEAN
    /\ ProviderIdle
    /\ today \in SessionDays
    /\ from_date = <<>>
    /\ fridays = <<>>
    /\ SessionWith(MANUAL, 1)

\* whether this render runs the acquisition cycle
runs_cycle(m, do_refresh) == m = AUTO /\ need_fetch(do_refresh, auto_data)

\* whether an exception of get_option_ivs leaves render_sidebar
cycle_raises(m, do_refresh, e) ==
    runs_cycle(m, do_refresh) /\ cycle_ivs(ibkr, auto_data, e).raised

\* what the render notes of its cycle
CycleNoted(m, do_refresh, e) ==
    /\ ui_lookups' = IF runs_cycle(m, do_refresh)
                     THEN cycle_lookups(ibkr, auto_data, e) ELSE <<>>
    /\ ui_env' = e
    /\ ui_connected' =
           IF cycle_raises(m, do_refresh, e)
           THEN cycle_ivs(ibkr, auto_data, e).connected
           ELSE IF runs_cycle(m, do_refresh)
                THEN cycle_iv_rank(ibkr, yf_installed, auto_data, e).connected
                ELSE FALSE
    /\ fetched_for' = IF runs_cycle(m, do_refresh) /\ ~cycle_raises(m, do_refresh, e)
                      THEN tmp_symbol(auto_data) ELSE fetched_for

\* render_sidebar with the mode m, the refresh button, the symbol chosen in
\* the select box, and the answers e of the upstream sources
Rendered(m, do_refresh, symbol, e) ==
    /\ mode' = m
    /\ ui_refresh' = do_refresh
    /\ renders' = renders + 1
    /\ CycleNoted(m, do_refresh, e)
    /\ IF cycle_raises(m, do_refresh, e)
       THEN UNCHANGED <<auto_data, ibkr_last_updated, selected>>
       ELSE /\ auto_data' =
                   cache_after_symbol(
                       cache_after_fetch(ibkr, yf_installed, auto_data, m,
                                         do_refresh, e, today),
                       m, symbol)
            /\ ibkr_last_updated' = IF runs_cycle(m, do_refresh)
                                    THEN <<renders + 1>> ELSE ibkr_last_updated
            /\ selected' = symbol
    /\ UNCHANGED <<inputs, phase, error, metrics, statuses, called, ret_metrics,
                   ret_statuses, ret_decision, ret_suggestions, v_call, v_result,
                   provider_vars, calendar_vars>>

\* one rerun of the page
Render ==
    /\ renders < MaxRenders
    /\ \E m \in {MANUAL, AUTO} :
        \E do_refresh \in IF m = AUTO THEN BOOLEAN ELSE {FALSE} :
            \E symbol \in Symbols :
                \E e \in IF runs_cycle(m, do_refresh)
                         THEN CycleAnswers(ibkr, yf_installed, auto_data)
                         ELSE {NoAnswers} :
                    Rendered(m, do_refresh, symbol, e)

NextSession == Render

SpecSession == InitSession /\ [][NextSession]_vars


-----------------------------------------------------------------------------
(* Vocabulary of the properties *)

BaseRuleNames ==
    <<"Price Location", "Term Structure", "IV Rank", "Event Proximity", "VIX">>

StatusLabels == {"GREEN", "YELLOW", "RED"}

CountOf(sts, label) == Cardinality({i \in 1..Len(sts) : sts[i][2] = label})

\* wait < cautious entry < full entry
DecisionRank(d) ==
    CASE d = WAIT -> 0 [] d = ENTER_CAUTION -> 1 [] d = ENTER_ALL_GREEN -> 2

\* the status map with its i-th status replaced by RED
WithRed(sts, i) == [j \in 1..Len(sts) |-> IF j = i THEN <<sts[j][1], "RED">> ELSE sts[j]]

\* The validation rules as the specification lists them, in its order
RuleViolated(i, rec) ==
    CASE i = 1  -> ~(rec.price > 0)
      [] i = 2  -> ~(rec.put_strike > 0)
      [] i = 3  -> ~(rec.call_strike > 0)
      [] i = 4  -> ~(rec.put_strike < rec.call_strike)
      [] i = 5  -> ~(rec.front_put_iv >= 0)
      [] i = 6  -> ~(rec.front_call_iv >= 0)
      [] i = 7  -> ~(rec.back_put_iv >= 0)
      [] i = 8  -> ~(rec.back_call_iv >= 0)
      [] i = 9  -> ~(0 <= rec.iv_rank_pct /\ rec.iv_rank_pct <= 100)
      [] i = 10 -> ~(rec.days_to_event >= 0)
      [] i = 11 -> ~(rec.vix_value > 0)
      [] i = 12 -> rec.use_atr /\ ~(rec.atr_points > 0)

RuleIds == 1..12

\* how the message of rule i begins
RuleMessageHead(i) ==
    CASE i = 1  -> "Price"
      [] i = 2  -> "Put strike"
      [] i = 3  -> "Call strike"
      [] i = 4  -> "Put strike should be less than call strike for typical strategies"
      [] i = 5  -> "Front-week PUT IV"
      [] i = 6  -> "Front-week CALL IV"
      [] i = 7  -> "Back-week PUT IV"
      [] i = 8  -> "Back-week CALL IV"
      [] i = 9  -> "IV Rank"
      [] i = 10 -> "Days to event"
      [] i = 11 -> "VIX value"
      [] i = 12 -> "ATR points"

ViolatedRules(rec) == {i \in RuleIds : RuleViolated(i, rec)}

FirstViolated(rec) ==
    CHOOSE i \in ViolatedRules(rec) : \A j \in ViolatedRules(rec) : i <= j

RecordValid(rec) == ViolatedRules(rec) = {}

\* The results of compute, evaluate, decide, suggest called in this order
\* on a newly constructed model of the record
FreshSelf(rec) == [inputs |-> rec, metrics |-> EmptyDict, statuses |-> EmptyDict]

CanonicalMetrics(rec) == compute_metrics(FreshSelf(rec))

CanonicalStatuses(rec) == evaluate_status_lights(CanonicalMetrics(rec).self)

CanonicalDecision(rec) == get_final_decision(CanonicalStatuses(rec).self)

CanonicalSuggestions(rec) == get_strategy_suggestions(CanonicalDecision(rec).self)

-----------------------------------------------------------------------------
C2_CautionIffExactlyOneYellow ==
    "get_final_decision" \in called =>
        ( ret_decision = ENTER_CAUTION
          <=> /\ CountOf(statuses, "YELLOW") = 1
              /\ CountOf(statuses, "GREEN") = Len(statuses) - 1
              /\ CountOf(statuses, "RED") = 0 )

(* C3: get_final_decision returns the full-entry label if and only if      *)
(* every status of the map (5 or 6 entries) is GREEN.                      *)
C3_FullEntryIffAllGreen ==
    "get_final_decision" \in called =>
        /\ Len(statuses) \in {5, 6}
        /\ ( ret_decision = ENTER_ALL_GREEN
             <=> \A i \in 1..Len(statuses) : statuses[i][2] = "GREEN" )

C3_Witness ==
    /\ "get_final_decision" \in called
    /\ ret_decision = ENTER_ALL_GREEN
    /\ Len(statuses) = 6

(* C4: a RED status anywhere makes the decision wait; and replacing any    *)
(* one status by RED, the others kept, never gives a better decision than  *)
(* the one returned (wait < cautious entry < full entry).                  *)
C4_RedForcesWait ==
    "get_final_decision" \in called =>
        /\ (CountOf(statuses, "RED") > 0 => ret_decision = WAIT)
        /\ \A i \in 1..Len(statuses) :
               /\ final_decision(WithRed(statuses, i)) = WAIT
               /\ DecisionRank(final_decision(WithRed(statuses, i)))
                      <= DecisionRank(ret_decision)

\* one RED among five GREEN: the score 10 of 12 alone would allow cautious entry
C4_Witness ==
    /\ "get_final_decision" \in called
    /\ Len(statuses) = 6
    /\ CountOf(statuses, "RED") = 1
    /\ CountOf(statuses, "GREEN") = 5
    /\ ret_decision = WAIT

(* C5: on one model, whatever methods were called before and in whatever   *)
(* order, each method returns what it returns in the canonical order       *)
(* compute, evaluate, decide, suggest on a new model of the same record;   *)
(* so every call of a method returns the same value.                       *)
C5_SameResultInAnyOrder ==
    /\ "compute_metrics" \in called =>
           ret_metrics = CanonicalMetrics(inputs).ret
    /\ "evaluate_status_lights" \in called =>
           ret_statuses = CanonicalStatuses(inputs).ret
    /\ "get_final_decision" \in called =>
           ret_decision = CanonicalDecision(inputs).ret
    /\ "get_strategy_suggestions" \in called =>
           ret_suggestions = CanonicalSuggestions(inputs).ret
    /\ called # {} => metrics = CanonicalMetrics(inputs).ret
    /\ statuses # EmptyDict => statuses = CanonicalStatuses(inputs).ret

\* get_strategy_suggestions called first, and nothing else since: it filled
\* both caches itself and suggested something other than the sentinel
C5_Witness ==
    /\ called = {"get_strategy_suggestions"}
    /\ metrics # EmptyDict
    /\ statuses # EmptyDict
    /\ ret_suggestions # <<NO_TRADE>>

(* C6: validate_strikes raises ValidationError when put_strike equals      *)
(* call_strike and when it is greater, and returns without error when      *)
(* put_strike is less than call_strike.                                    *)
C6_ValidateStrikes ==
    v_call = "validate_strikes" =>
        /\ (inputs.put_strike = inputs.call_strike => v_result.raised)
        /\ (inputs.put_strike > inputs.call_strike => v_result.raised)
        /\ (inputs.put_strike < inputs.call_strike =>
                ~v_result.raised /\ v_result.value = <<TRUE>>)

C6_Witness ==
    /\ v_call = "validate_strikes"
    /\ inputs.put_strike = inputs.call_strike
    /\ inputs.put_strike > 0
    /\ v_result.raised

(* C7: validate_inputs raises the error of the first violated rule in the  *)
(* order price, put strike, call strike, put < call, the four IVs, IV      *)
(* rank, days to event, VIX, ATR (when use_atr), with a message naming     *)
(* that field; it returns the record unchanged iff no rule is violated.    *)
C7_FirstViolatedRule ==
    v_call = "validate_inputs" =>
        /\ (~v_result.raised <=> ViolatedRules(inputs) = {})
        /\ (~v_result.raised => v_result.value = <<inputs>>)
        /\ (v_result.raised =>
                /\ ViolatedRules(inputs) # {}
                /\ v_result.msg[1] = RuleMessageHead(FirstViolated(inputs)))

\* several rules violated, the first of them neither the first rule nor the last
C7_Witness ==
    /\ v_call = "validate_inputs"
    /\ v_result.raised
    /\ ViolatedRules(inputs) = {4, 7, 9, 12}
    /\ v_result.msg[1] = RuleMessageHead(4)

(* C8: the constructor raises ValidationError for a record that violates   *)
(* a rule, and then there is no model to call; whenever metrics or         *)
(* statuses are non-empty, or a method has returned, the record passed     *)
(* validation at construction.                                             *)
C8_ValidationPrecedesComputation ==
    /\ (phase = "failed" <=> phase # "new" /\ ~RecordValid(inputs))
    /\ (phase = "failed" =>
            error # <<>> /\ metrics = EmptyDict /\ statuses = EmptyDict /\ called = {})
    /\ (metrics # EmptyDict \/ statuses # EmptyDict \/ called # {} =>
            phase = "ready" /\ RecordValid(inputs))

\* put strike above call strike, everything else acceptable
C8_Witness ==
    /\ phase = "failed"
    /\ ViolatedRules(inputs) = {4}
    /\ inputs.put_strike > inputs.call_strike
    /\ metrics = EmptyDict

(* C9 (as claimed): a record whose price lies below the put strike, with   *)
(* all other fields valid and put < call, is rejected by the constructor.  *)
C9_PriceBelowPutRejected ==
    ( /\ phase # "new"
      /\ inputs.price > 0
      /\ inputs.price < inputs.put_strike
      /\ inputs.put_strike < inputs.call_strike
      /\ ViolatedRules(inputs) = {} )
    => phase = "failed"

(* C10: get_strategy_suggestions never returns an empty list; the result   *)
(* holds the "No trade" sentinel iff none of the calendar, vertical and    *)
(* iron condor rules fires, and then the sentinel is its only element.     *)
CalendarFires ==
    /\ Get(statuses, "IV Rank") = "GREEN"
    /\ Get(statuses, "Term Structure") \in {"GREEN", "YELLOW"}
    /\ Get(statuses, "Price Location") # "RED"

VerticalFires ==
    /\ inputs.iv_rank_pct < 25
    /\ Get(statuses, "Price Location") = "GREEN"

IronCondorFires ==
    /\ 45 < inputs.iv_rank_pct /\ inputs.iv_rank_pct <= 60
    /\ inputs.vix_value >= 18
    /\ Get(statuses, "Price Location") = "GREEN"

InList(x, list) == \E i \in 1..Len(list) : list[i] = x

C10_SuggestionsNeverEmpty ==
    "get_strategy_suggestions" \in called =>
        /\ Len(ret_suggestions) > 0
        /\ ( InList(NO_TRADE, ret_suggestions)
             <=> ~CalendarFires /\ ~VerticalFires /\ ~IronCondorFires )
        /\ ( InList(NO_TRADE, ret_suggestions) => ret_suggestions = <<NO_TRADE>> )

C10_Witness ==
    /\ "get_strategy_suggestions" \in called
    /\ ret_suggestions = <<NO_TRADE>>
    /\ ~CalendarFires /\ ~VerticalFires /\ ~IronCondorFires

(* C11: the list returned by get_strategy_suggestions holds "Double        *)
(* Calendar" if and only if the IV Rank status is GREEN, the Term          *)
(* Structure status is GREEN or YELLOW and the Price Location status is    *)
(* not RED; in particular it holds it whenever the five base rules are     *)
(* all GREEN.                                                              *)
C11_CalendarIffEligible ==
    "get_strategy_suggestions" \in called =>
        /\ ( InList(DOUBLE_CALENDAR, ret_suggestions)
             <=> /\ Get(statuses, "IV Rank") = "GREEN"
                 /\ Get(statuses, "Term Structure") \in {"GREEN", "YELLOW"}
                 /\ Get(statuses, "Price Location") \in {"GREEN", "YELLOW"} )
        /\ ( (\A i \in 1..5 : statuses[i][2] = "GREEN")
             => InList(DOUBLE_CALENDAR, ret_suggestions) )

\* the calendar is suggested with a YELLOW term structure and a YELLOW price location
C11_Witness ==
    /\ "get_strategy_suggestions" \in called
    /\ InList(DOUBLE_CALENDAR, ret_suggestions)
    /\ Get(statuses, "Term Structure") = "YELLOW"
    /\ Get(statuses, "Price Location") = "YELLOW"

(* C12 (as claimed): whenever the final decision for a valid record is     *)
(* WAIT, get_strategy_suggestions returns at most one suggestion.          *)
C12_WaitAtMostOneSuggestion ==
    ( /\ "get_final_decision" \in called
      /\ "get_strategy_suggestions" \in called
      /\ ret_decision = WAIT )
    => Len(ret_suggestions) <= 1

(* C13: the Price Location status is GREEN when |price - mid| / mid is at  *)
(* most 0.01, YELLOW when it is above 0.01 and at most 0.02, RED above     *)
(* 0.02, both boundaries counted on the better side; the thresholds 1 and  *)
(* 2 applied to the distance in percent give the same status.  With        *)
(* mid = (put + call) / 2 the distance in percent is                       *)
(* 100 * |2 * price - (put + call)| / (put + call).                        *)
AbsInt(i) == IF i < 0 THEN 0 - i ELSE i

PercentDistanceTimesSum(rec) ==
    100 * AbsInt(2 * rec.price - (rec.put_strike + rec.call_strike))

PriceLocationByPercent(rec) ==
    IF PercentDistanceTimesSum(rec) <= 1 * (rec.put_strike + rec.call_strike)
    THEN "GREEN"
    ELSE IF PercentDistanceTimesSum(rec) <= 2 * (rec.put_strike + rec.call_strike)
         THEN "YELLOW"
         ELSE "RED"

C13_PriceLocationThresholds ==
    "evaluate_status_lights" \in called =>
        /\ Get(ret_statuses, "Price Location") = PriceLocationByPercent(inputs)
        /\ ( Get(ret_statuses, "Price Location") = "GREEN"
             <=> QLe(Get(metrics, "dist_from_mid"), Q(1, 100)) )
        /\ ( Get(ret_statuses, "Price Location") = "YELLOW"
             <=> /\ QLt(Q(1, 100), Get(metrics, "dist_from_mid"))
                 /\ QLe(Get(metrics, "dist_from_mid"), Q(2, 100)) )
        /\ ( Get(ret_statuses, "Price Location") = "RED"
             <=> QLt(Q(2, 100), Get(metrics, "dist_from_mid")) )

\* the distance is exactly 0.02 (price 102, midpoint 100): YELLOW, on the boundary
C13_Witness ==
    /\ "evaluate_status_lights" \in called
    /\ QEq(Get(metrics, "dist_from_mid"), Q(2, 100))
    /\ Get(ret_statuses, "Price Location") = "YELLOW"

(* C14: with use_atr set, the ATR Guardrail status is GREEN if atr_points  *)
(* is at most max(1e-9, strike_width / 2) and RED otherwise, never YELLOW; *)
(* a RED ATR Guardrail makes the decision wait even when the five base     *)
(* rules are all GREEN.  For a valid record the width is positive, so the  *)
(* bound is half the width.                                                *)
C14_AtrGuardrail ==
    /\ ( ("evaluate_status_lights" \in called /\ inputs.use_atr) =>
            /\ HasKey(ret_statuses, "ATR Guardrail")
            /\ Get(ret_statuses, "ATR Guardrail") =
                   IF 2 * inputs.atr_points <= AbsInt(inputs.call_strike - inputs.put_strike)
                   THEN "GREEN" ELSE "RED" )
    /\ ( ( /\ "get_final_decision" \in called
           /\ inputs.use_atr
           /\ Get(statuses, "ATR Guardrail") = "RED" )
         => ret_decision = WAIT )

\* strikes 90/110 (width 20) and ATR 12: the five base rules GREEN, the guardrail RED
C14_Witness ==
    /\ "get_final_decision" \in called
    /\ inputs.use_atr
    /\ inputs.call_strike - inputs.put_strike = 20
    /\ inputs.atr_points = 12
    /\ \A i \in 1..5 : statuses[i][2] = "GREEN"
    /\ Get(statuses, "ATR Guardrail") = "RED"
    /\ ret_decision = WAIT

-----------------------------------------------------------------------------
(* Vocabulary of the provider properties *)

\* a finite number other than zero
ValidNumber(x) == x.k = "num" /\ ~QIsZero(x.v)

CountIn(x, list) == Cardinality({i \in 1..Len(list) : list[i] = x})

\* the series has two observations that differ
NotFlat(series) ==
    \E i, j \in 1..Len(series) : ~QEq(series[i].v, series[j].v)

\* the last observation is the least, the greatest, of the series
LastIsMin(series) ==
    \A j \in 1..Len(series) : QLe(series[Len(series)].v, series[j].v)

LastIsMax(series) ==
    \A j \in 1..Len(series) : QLe(series[j].v, series[Len(series)].v)

(* C15 (as claimed): get_underlying_price returns ABSENT only if every     *)
(* tier fails: when the connection succeeds and the live tick, the delayed *)
(* retry, the daily historical close or the secondary source has a valid   *)
(* finite price, the call returns the price of the first such tier.        *)
PriceTiers(env) == <<env.live, env.delayed_tick, env.daily_close, env.yahoo>>

FirstValidTier(env) ==
    PriceTiers(env)[CHOOSE i \in 1..4 :
                        /\ ValidNumber(PriceTiers(env)[i])
                        /\ \A j \in 1..(i - 1) : ~ValidNumber(PriceTiers(env)[j])]

C15_PriceFromFirstValidTier ==
    ( /\ lk_call = "get_underlying_price"
      /\ connected
      /\ \E i \in 1..4 : ValidNumber(PriceTiers(lk_env)[i]) )
    => lk_out.value = FirstValidTier(lk_env)

(* C16 (as claimed): get_option_ivs returns the four keys front_put_iv,    *)
(* front_call_iv, back_put_iv, back_call_iv, each obtained or ABSENT on    *)
(* its own: a combination without model IV, or whose request raises an     *)
(* error, makes only its own field ABSENT and leaves the other three as    *)
(* they are obtained.                                                      *)
ExpectedIv(answer) == IF answer.k = "raises" THEN PyNone ELSE inner_iv(answer)

C16_IvFieldsIndependent ==
    lk_call = "get_option_ivs" =>
        /\ ~lk_out.raised
        /\ Keys(lk_out.value) = IvKeys
        /\ connected =>
               \A i \in 1..4 : lk_out.value[i][2] = ExpectedIv(lk_env[i])

(* C17 (as claimed): no provider lookup (get_underlying_price,             *)
(* get_option_ivs, get_vix, get_iv_rank, ensure_connected) lets a fault of *)
(* an upstream request escape as an exception: whichever requests fail,    *)
(* the lookup returns a value or the absence marker.                       *)
C17_NoFaultEscapes ==
    lk_call # "none" => ~lk_out.raised

(* C18 (as claimed): get_vix returns the primary quote (last, else the     *)
(* previous close) when connected and that quote is a valid number; in     *)
(* every other case (quote missing or not-a-number, error of the primary   *)
(* request, no connection) it returns the most recent close of the         *)
(* secondary source, and ABSENT only when that fails too; it never returns *)
(* a value that is not a valid number.                                     *)
PrimaryVix(quote) == IF ValidNumber(quote.last) THEN quote.last ELSE quote.close

PrimaryVixAvailable(quote) ==
    /\ ~quote.raises
    /\ ValidNumber(quote.last) \/ ValidNumber(quote.close)

SecondaryVixAvailable(yahoo) ==
    yf_installed /\ yahoo.kind = "data" /\ ValidNumber(yahoo.close)

C18_VixPrimaryElseSecondary ==
    lk_call = "get_vix" =>
        /\ lk_out.value.k \in {"None", "num"}
        /\ lk_out.value =
               IF connected /\ PrimaryVixAvailable(lk_env.quote)
               THEN PrimaryVix(lk_env.quote)
               ELSE IF SecondaryVixAvailable(lk_env.yahoo)
                    THEN lk_env.yahoo.close
                    ELSE PyNone

(* C19: every value get_iv_rank returns is ABSENT or a number in [0, 100], *)
(* on the primary and on the secondary path; it is 0 exactly when the      *)
(* current observation is the least of the series it was computed from and *)
(* 100 exactly when it is the greatest; a flat series (max = min) never    *)
(* produces a rank on its path.                                            *)
RankFromSecondary == InList(IVR_YAHOO, lk_trace)

RankSeries ==
    IF RankFromSecondary
    THEN finite_closes(lk_env.secondary.closes)
    ELSE finite_closes(lk_env.primary.history.bars)

C19_RankWithinBounds ==
    lk_call = "get_iv_rank" =>
        /\ lk_out.value.k \in {"None", "num"}
        /\ lk_out.value.k = "num" =>
               /\ QLe(R(0), lk_out.value.v) /\ QLe(lk_out.value.v, R(100))
               /\ RankSeries # <<>>
               /\ NotFlat(RankSeries)
               /\ QEq(lk_out.value.v, R(0)) <=> LastIsMin(RankSeries)
               /\ QEq(lk_out.value.v, R(100)) <=> LastIsMax(RankSeries)

\* the secondary path ranks a current close that is the greatest of its series
C19_Witness ==
    /\ lk_call = "get_iv_rank"
    /\ RankFromSecondary
    /\ lk_out.value.k = "num"
    /\ QEq(lk_out.value.v, R(100))
    /\ LastIsMax(RankSeries)
    /\ Len(finite_closes(lk_env.primary.history.bars)) >= MinObservations

(* C20: get_iv_rank returns the rank of the primary path, without a        *)
(* request to the secondary source, when the client is connected and the   *)
(* primary path yields at least 5 finite observations with max > min; in   *)
(* every other case (not connected, no option parameters, no expirations,  *)
(* no strikes, no contract among the probed candidates, fewer than 5       *)
(* observations, a flat series, an error on the primary path) it goes      *)
(* through the secondary path once (one request when yfinance is there,    *)
(* none when it is not) and returns ABSENT only if that path fails too.    *)
PrimaryRankAvailable ==
    /\ connected
    /\ lk_env.primary.history.kind = "bars"
    /\ Len(finite_closes(lk_env.primary.history.bars)) >= 5
    /\ NotFlat(finite_closes(lk_env.primary.history.bars))

SecondaryRankAvailable ==
    /\ yf_installed
    /\ lk_env.secondary.kind = "data"
    /\ NotFlat(finite_closes(lk_env.secondary.closes))

C20_PrimaryElseSecondaryOnce ==
    lk_call = "get_iv_rank" =>
        IF PrimaryRankAvailable
        THEN /\ CountIn(IVR_YAHOO, lk_trace) = 0
             /\ lk_out.value.k = "num"
             /\ lk_trace[Len(lk_trace)] = IVR_HISTORY
        ELSE /\ CountIn(IVR_YAHOO, lk_trace) = IF yf_installed THEN 1 ELSE 0
             /\ lk_out.value = PyNone <=> ~SecondaryRankAvailable

\* four finite observations that differ: the secondary source is asked and ranks
C20_Witness ==
    /\ lk_call = "get_iv_rank"
    /\ connected
    /\ Len(finite_closes(lk_env.primary.history.bars)) = 4
    /\ NotFlat(finite_closes(lk_env.primary.history.bars))
    /\ CountIn(IVR_YAHOO, lk_trace) = 1
    /\ lk_out.value.k = "num"

-----------------------------------------------------------------------------
TwiceTermGap(rec) ==
    (rec.front_put_iv + rec.front_call_iv) - (rec.back_put_iv + rec.back_call_iv)

TermStructureByTable(rec) ==
    IF TwiceTermGap(rec) >= 4
    THEN "GREEN"
    ELSE IF TwiceTermGap(rec) >= 2 THEN "YELLOW" ELSE "RED"

IVRankByTable(rec) ==
    IF 30 <= rec.iv_rank_pct /\ rec.iv_rank_pct <= 50
    THEN "GREEN"
    ELSE IF \/ 20 <= rec.iv_rank_pct /\ rec.iv_rank_pct < 30
            \/ 50 < rec.iv_rank_pct /\ rec.iv_rank_pct <= 60
         THEN "YELLOW"
         ELSE "RED"

VIXByTable(rec) ==
    IF 14 <= rec.vix_value /\ rec.vix_value <= 20
    THEN "GREEN"
    ELSE IF 20 < rec.vix_value /\ rec.vix_value <= 25 THEN "YELLOW" ELSE "RED"

C26_TableRows ==
    "evaluate_status_lights" \in called =>
        /\ Get(ret_statuses, "Term Structure") = TermStructureByTable(inputs)
        /\ Get(ret_statuses, "IV Rank") = IVRankByTable(inputs)
        /\ Get(ret_statuses, "VIX") = VIXByTable(inputs)

\* a gap of 1.5, a rank of 0.60 and a VIX of 25: all three YELLOW
C26_Witness ==
    /\ "evaluate_status_lights" \in called
    /\ TwiceTermGap(inputs) = 3
    /\ inputs.iv_rank_pct = 60
    /\ inputs.vix_value = 25
    /\ Get(ret_statuses, "Term Structure") = "YELLOW"
    /\ Get(ret_statuses, "IV Rank") = "YELLOW"
    /\ Get(ret_statuses, "VIX") = "YELLOW"

(* C27: for every record that passes validation, compute_metrics yields    *)
(* midpoint = (put + call) / 2 > 0, strike_width = call - put > 0,         *)
(* dist_from_mid >= 0 and 0 <= iv_rank <= 1; the midpoint is not 0, so     *)
(* dist_from_mid is |price - midpoint| / midpoint and never the sentinel.  *)
C27_MetricsInvariants ==
    "compute_metrics" \in called =>
        /\ RecordValid(inputs)
        /\ QEq(Get(ret_metrics, "midpoint"),
               Q(inputs.put_strike + inputs.call_strike, 2))
        /\ QLt(R(0), Get(ret_metrics, "midpoint"))
        /\ ~QIsZero(Get(ret_metrics, "midpoint"))
        /\ QEq(Get(ret_metrics, "strike_width"),
               R(inputs.call_strike - inputs.put_strike))
        /\ QLt(R(0), Get(ret_metrics, "strike_width"))
        /\ QLe(R(0), Get(ret_metrics, "dist_from_mid"))
        /\ QEq(Get(ret_metrics, "dist_from_mid"),
               Q(AbsInt(2 * inputs.price - (inputs.put_strike + inputs.call_strike)),
                 inputs.put_strike + inputs.call_strike))
        /\ QLe(R(0), Get(ret_metrics, "iv_rank"))
        /\ QLe(Get(ret_metrics, "iv_rank"), R(1))

\* a price below the midpoint and the largest IV rank a record may have
C27_Witness ==
    /\ "compute_metrics" \in called
    /\ inputs.price < inputs.put_strike + 10
    /\ inputs.iv_rank_pct = 100
    /\ QEq(Get(ret_metrics, "iv_rank"), R(1))
    /\ QEq(Get(ret_metrics, "dist_from_mid"), Q(2, 100))

(* C29: when use_atr is false the ATR value has no influence: a record     *)
(* that differs only in atr_points (zero and negative values included) is  *)
(* validated with the same result, and its status map, final decision and  *)
(* suggestion list are the same.                                           *)
AtrAlternatives == {-5, 0, 25}

WithAtr(rec, a) == [rec EXCEPT !.atr_points = a]

C29_AtrWithoutInfluence ==
    ~inputs.use_atr =>
        \A a \in AtrAlternatives :
            /\ phase # "new" =>
                   /\ OptionsModel_validate_inputs(WithAtr(inputs, a)).raised
                          = (phase = "failed")
                   /\ OptionsModel_validate_inputs(WithAtr(inputs, a)).msg = error
            /\ "evaluate_status_lights" \in called =>
                   ret_statuses = CanonicalStatuses(WithAtr(inputs, a)).ret
            /\ "get_final_decision" \in called =>
                   ret_decision = CanonicalDecision(WithAtr(inputs, a)).ret
            /\ "get_strategy_suggestions" \in called =>
                   ret_suggestions = CanonicalSuggestions(WithAtr(inputs, a)).ret

\* an ATR of 0 with the guardrail off passes validation and all is computed
C29_Witness ==
    /\ ~inputs.use_atr
    /\ inputs.atr_points = 0
    /\ phase = "ready"
    /\ called = Methods
    /\ Len(ret_statuses) = 5

(* C30: for every valid record the suggestion list has at most two         *)
(* entries in rule-declaration order: the vertical spread (normalized IV   *)
(* rank < 0.25, Price Location GREEN) never comes with the calendar or the *)
(* iron condor, and the calendar and the iron condor come together exactly *)
(* when 0.45 < rank <= 0.50, VIX >= 18, Price Location is GREEN and Term   *)
(* Structure is not RED, the calendar first.                               *)
C30_AtMostTwoInOrder ==
    "get_strategy_suggestions" \in called =>
        /\ RecordValid(inputs)
        /\ Len(ret_suggestions) <= 2
        /\ InList(OTM_VERTICAL, ret_suggestions)
               <=> inputs.iv_rank_pct < 25 /\ Get(statuses, "Price Location") = "GREEN"
        /\ InList(OTM_VERTICAL, ret_suggestions) => ret_suggestions = <<OTM_VERTICAL>>
        /\ ( InList(DOUBLE_CALENDAR, ret_suggestions) /\ InList(IRON_CONDOR, ret_suggestions) )
               <=> /\ 45 < inputs.iv_rank_pct /\ inputs.iv_rank_pct <= 50
                   /\ inputs.vix_value >= 18
                   /\ Get(statuses, "Price Location") = "GREEN"
                   /\ Get(statuses, "Term Structure") # "RED"
        /\ ( InList(DOUBLE_CALENDAR, ret_suggestions) /\ InList(IRON_CONDOR, ret_suggestions) )
               => ret_suggestions = <<DOUBLE_CALENDAR, IRON_CONDOR>>

\* rank 0.50 and VIX 18, both on their bounds: calendar, then iron condor
C30_Witness ==
    /\ "get_strategy_suggestions" \in called
    /\ inputs.iv_rank_pct = 50
    /\ inputs.vix_value = 18
    /\ ret_suggestions = <<DOUBLE_CALENDAR, IRON_CONDOR>>

-----------------------------------------------------------------------------
(* The calendar and the session *)

\* the first Friday is day 5, and every seventh day after it
IsFriday(d) == d % 7 = 5

\* the reference date of the call: the argument, today when there is none
ReferenceDate == IF from_date = <<>> THEN today ELSE from_date[1]

\* the last render ran an acquisition cycle
CycleRan == ui_lookups # <<>>

IvKeySet == {IvKeys[i] : i \in 1..4}

\* the cache entries an acquisition cycle fetches from the provider
FetchedKeys == {"price", "vix_value", "iv_rank_pct"} \cup IvKeySet

\* the cache entries the claims name: the fetched ones and the strikes
CachedKeys == FetchedKeys \cup {"put_strike", "call_strike"}

\* a step that is a render in Auto mode
AutoRender == renders' = renders + 1 /\ mode' = AUTO

(* C21: for every reference date d, nearest_two_fridays(d) returns (first, *)
(* second) where first is a Friday with d <= first <= d + 6 (first = d     *)
(* when d is a Friday) and second = first + 7; the call always returns a   *)
(* pair, without a connection and without a request to any source.         *)
C21_NearestTwoFridays ==
    fridays # <<>> =>
        /\ Len(fridays) = 2
        /\ IsFriday(fridays[1])
        /\ ReferenceDate <= fridays[1]
        /\ fridays[1] <= ReferenceDate + 6
        /\ IsFriday(ReferenceDate) => fridays[1] = ReferenceDate
        /\ fridays[2] = fridays[1] + 7
        /\ ~connected
        /\ lk_trace = <<>>

\* a reference date that is a Friday of the second week is its own first Friday
C21_Witness ==
    /\ from_date = <<12>>
    /\ fridays = <<12, 19>>

C23_LookupsIndependent ==
    CycleRan =>
        /\ \A l \in {"get_underlying_price", "get_option_ivs", "get_vix", "get_iv_rank"} :
               InList(l, ui_lookups)
        /\ auto_data # EmptyDict =>
               /\ Get(auto_data, "vix_value")
                      = get_vix(ibkr, yf_installed, FALSE, ui_env.quote, ui_env.yahoo).value
               /\ Get(auto_data, "iv_rank_pct")
                      = get_iv_rank(ibkr, yf_installed, FALSE, ui_env.prim, ui_env.sec).value

(* C24: in a render in Auto mode the acquisition cycle runs, and the cache *)
(* and the last-refresh timestamp are rewritten, if and only if the        *)
(* refresh was requested in that render or the cache was empty at its      *)
(* start; in every other render in Auto mode no lookup is made, and the    *)
(* timestamp and the cached price, strikes, IVs, VIX and IV rank stay.     *)
C24_FetchIffRefreshOrEmpty ==
    [][ AutoRender =>
          /\ (ui_lookups' # <<>>) <=> (ui_refresh' \/ auto_data = EmptyDict)
          /\ ui_lookups' # <<>> =>
                 /\ ibkr_last_updated' = <<renders'>>
                 /\ \A k \in CachedKeys : HasKey(auto_data', k)
                 /\ Get(auto_data', "vix_value")
                        = get_vix(ibkr, yf_installed, FALSE,
                                  ui_env'.quote, ui_env'.yahoo).value
          /\ ui_lookups' = <<>> =>
                 /\ ibkr_last_updated' = ibkr_last_updated
                 /\ \A k \in CachedKeys : Get(auto_data', k) = Get(auto_data, k)
      ]_vars

\* the third render is in Auto mode without a refresh: it makes no lookup and
\* keeps what the second render fetched
C24_Witness ==
    /\ renders = 3
    /\ mode = AUTO
    /\ ~ui_refresh
    /\ ui_lookups = <<>>
    /\ ibkr_last_updated = <<2>>
    /\ Get(auto_data, "vix_value") = Num(R(17))

(* C28 as stated: the cache is keyed by symbol: in Auto mode what is read  *)
(* from the cache to pre-fill the inputs of the selected symbol was        *)
(* fetched for that symbol, never for one selected before.                 *)
C28_CacheOfSelectedSymbol ==
    (mode = AUTO /\ auto_data # EmptyDict) =>
        /\ Get(auto_data, "symbol") = selected
        /\ fetched_for = selected

====
